---- MODULE Spec2Model ----
(***************************************************************************)
(* Model of audio_switcher.py: the tray application that switches the      *)
(* default audio output device between two favorite devices.               *)
(*                                                                         *)
(* The program state is the AudioSwitcher object (config, devices, the     *)
(* policy client), the menu built once by run(), and the environment it    *)
(* talks to: the config file, the OS endpoint list, the OS default         *)
(* endpoint of each role and the availability of the policy interface.     *)
(***************************************************************************)
EXTENDS Integers, Sequences, FiniteSets, TLC

VARIABLES
    config,         \* AudioSwitcher._config (the value load_config returned, then mutated)
    file,           \* the file CONFIG_FILE on disk
    devices,        \* AudioSwitcher._devices
    menuDevices,    \* the device entries of the menu run() built from create_menu()
    policy_client,  \* AudioSwitcher.policy_client: None or a PolicyConfigClient
    policy_config,  \* PolicyConfigClient._policy_config is not None
    running,        \* the process is alive (icon.run() has not returned)
    osDevices,      \* what AudioUtilities.GetAllDevices() enumerates
    osDefault,      \* the OS default render endpoint of each role
    comAvailable,   \* CoCreateInstance(CLSID_PolicyConfigClient) succeeds now
    faults,         \* the kinds of environment failure that can occur in this run
    boot,           \* how the config file looked when load_config read it at startup
    last            \* what the most recent step did (observation record)

vars == <<config, file, devices, menuDevices, policy_client, policy_config,
          running, osDevices, osDefault, comAvailable, faults, boot, last>>

----------------------------------------------------------------------------
(* Values *)

\* Python None
None == "None"
\* a key that is not in the dict
NoKey == "NoKey"
\* the empty string
EmptyStr == ""
\* toggle_favorites returned without calling set_default_device
NoRequest == "NoRequest"
\* toggle_favorites returned before calling get_default_device_id
NotRead == "NotRead"

\* Device identifiers, in the order the OS enumerates the endpoints.
IdAt == <<"A", "B", "C", "D">>
DeviceIds == {IdAt[i] : i \in 1..Len(IdAt)}

\* for role in range(3)
NumRoles == 3
Roles == 0..(NumRoles - 1)

\* Longest endpoint list the OS enumerates.
MaxDevices == 2

\* The values a favorite can hold in memory or in the file.  Other JSON
\* values behave as one of these: 0, false, [] and {} are falsy like "",
\* a number or a non-empty list is truthy like a device id.
FavVals == {None, EmptyStr, "A", "B", "C"}

FavKeys == {"favorite1", "favorite2"}
FavKey(slot) == IF slot = 1 THEN "favorite1" ELSE "favorite2"
OtherSlot(slot) == 3 - slot

\* A config is the dict json.load returned, or a JSON value that is no dict
\* (type "list": the document []; null, a number or a string behave alike).
Dict(f1, f2) == [type |-> "dict", favorite1 |-> f1, favorite2 |-> f2]
NonDict == [type |-> "list", favorite1 |-> NoKey, favorite2 |-> NoKey]

\* {'favorite1': None, 'favorite2': None}
DefaultConfig == Dict(None, None)

\* dict.get(key): None for a missing key
Get(cfg, key) == IF cfg[key] = NoKey THEN None ELSE cfg[key]

\* Python truthiness of a favorite value
Truthy(v) == v \notin {None, EmptyStr}

----------------------------------------------------------------------------
(* json.dump / json.load on the config file, as token sequences *)

P(c) == [t |-> "punct", v |-> c]
S(s) == [t |-> "string", v |-> s]
Null == [t |-> "null", v |-> "null"]

EncodeValue(v) == IF v = None THEN Null ELSE S(v)

Member(cfg, key) ==
    IF cfg[key] = NoKey THEN <<>> ELSE <<S(key), P(":"), EncodeValue(cfg[key])>>

\* json.dump(config, f, indent=2, ensure_ascii=False)
Dump(cfg) ==
    IF cfg.type # "dict" THEN <<P("["), P("]")>>
    ELSE LET m1 == Member(cfg, "favorite1")
             m2 == Member(cfg, "favorite2")
             sep == IF m1 # <<>> /\ m2 # <<>> THEN <<P(",")>> ELSE <<>>
         IN  <<P("{")>> \o m1 \o sep \o m2 \o <<P("}")>>

IsValueTok(tok) == tok.t \in {"string", "null"}
DecodeValue(tok) == IF tok.t = "null" THEN None ELSE tok.v

ParseError == [ok |-> FALSE, value |-> DefaultConfig]

\* the members of a JSON object, from position i; a repeated key keeps the
\* last value, a key other than the two favorites is read and ignored
RECURSIVE ParseMembers(_, _, _)
ParseMembers(text, i, acc) ==
    IF i + 3 > Len(text) THEN ParseError
    ELSE IF ~(text[i].t = "string" /\ text[i + 1] = P(":") /\ IsValueTok(text[i + 2]))
    THEN ParseError
    ELSE LET key == text[i].v
             val == DecodeValue(text[i + 2])
             acc2 == IF key \in FavKeys THEN [acc EXCEPT ![key] = val] ELSE acc
         IN  IF text[i + 3] = P("}")
             THEN IF i + 3 = Len(text) THEN [ok |-> TRUE, value |-> acc2] ELSE ParseError
             ELSE IF text[i + 3] = P(",") THEN ParseMembers(text, i + 4, acc2)
             ELSE ParseError

\* json.load(f): ok = FALSE stands for json.JSONDecodeError
ParseJSON(text) ==
    IF text = <<P("["), P("]")>> THEN [ok |-> TRUE, value |-> NonDict]
    ELSE IF text = <<P("{"), P("}")>> THEN [ok |-> TRUE, value |-> Dict(NoKey, NoKey)]
    ELSE IF Len(text) >= 1 /\ text[1] = P("{") THEN ParseMembers(text, 2, Dict(NoKey, NoKey))
    ELSE ParseError

\* load_config(); openFails: open() raises (file unreadable)
load_config(f, openFails) ==
    IF ~f.exists THEN DefaultConfig
    ELSE IF openFails THEN DefaultConfig
    ELSE LET r == ParseJSON(f.text) IN IF r.ok THEN r.value ELSE DefaultConfig

\* Most tokens a write that fails after open() leaves in the file.
MaxPartialWrite == 2

Min(a, b) == IF a < b THEN a ELSE b

\* The outcomes of the write in save_config: open() raises and the file is
\* untouched, or open() truncates the file and the dump stops after k tokens
\* (a strict prefix of the document), or the whole document is written.
WriteOutcomes(cfg) ==
    IF "write" \in faults
    THEN {[kind |-> "open_fails", k |-> 0]}
         \cup {[kind |-> "truncated", k |-> k] :
                  k \in 0..Min(MaxPartialWrite, Len(Dump(cfg)) - 1)}
         \cup {[kind |-> "ok", k |-> Len(Dump(cfg))]}
    ELSE {[kind |-> "ok", k |-> Len(Dump(cfg))]}

\* save_config that never writes
save_config_lost(f, cfg, outcome) == f

\* save_config(config): every exception is swallowed
save_config(f, cfg, outcome) ==
    IF outcome.kind = "open_fails" THEN f
    ELSE [exists |-> TRUE, text |-> SubSeq(Dump(cfg), 1, outcome.k)]

----------------------------------------------------------------------------
(* AudioSwitcher._refresh_devices *)

\* Display names are sequences of characters.
UpperCase == <<"A", "B", "C", "D", "E", "F", "G", "H", "I", "J", "K", "L", "M",
               "N", "O", "P", "Q", "R", "S", "T", "U", "V", "W", "X", "Y", "Z">>
LowerCase == <<"a", "b", "c", "d", "e", "f", "g", "h", "i", "j", "k", "l", "m",
               "n", "o", "p", "q", "r", "s", "t", "u", "v", "w", "x", "y", "z">>

\* str.lower(), one character
LowerChar(c) ==
    IF \E i \in 1..Len(UpperCase) : UpperCase[i] = c
    THEN LowerCase[CHOOSE i \in 1..Len(UpperCase) : UpperCase[i] = c]
    ELSE c

\* str.lower()
Lower(str) == [i \in 1..Len(str) |-> LowerChar(str[i])]

\* pattern in name
Contains(name, pattern) ==
    \E i \in 0..(Len(name) - Len(pattern)) :
        SubSeq(name, i + 1, i + Len(pattern)) = pattern

skip_patterns == <<
    <<"M", "i", "c", "r", "o", "p", "h", "o", "n", "e">>,
    <<"M", "i", "c">>,
    <<"I", "n", "p", "u", "t">>,
    <<"L", "i", "n", "e", " ", "I", "n">>,
    <<"R", "e", "a", "r", " ", "G", "r", "e", "e", "n", " ", "I", "n">>,
    <<"R", "e", "a", "r", " ", "B", "l", "u", "e", " ", "I", "n">>,
    <<"F", "r", "o", "n", "t", " ", "G", "r", "e", "e", "n", " ", "I", "n">>,
    <<"F", "r", "o", "n", "t", " ", "P", "i", "n", "k", " ", "I", "n">>,
    <<"R", "e", "a", "r", " ", "P", "i", "n", "k", " ", "I", "n">>
>>

\* pattern.lower() for pattern in skip_patterns
LowerPatterns == [i \in 1..Len(skip_patterns) |-> Lower(skip_patterns[i])]

\* any(pattern.lower() in name.lower() for pattern in skip_patterns)
MatchesSkipPattern(name) ==
    LET lname == Lower(name)
    IN  \E i \in 1..Len(LowerPatterns) : Contains(lname, LowerPatterns[i])

Digits == <<"1", "2", "3", "4", "5", "6", "7", "8", "9">>

\* f"Device {n}"
FallbackName(n) == <<"D", "e", "v", "i", "c", "e", " ", Digits[n]>>

\* EDataFlow: eRender = 0, eCapture = 1, eAll = 2
FlowValue(flow) == CASE flow = "render" -> 0 [] flow = "capture" -> 1 [] flow = "both" -> 2

NameSpeakers == <<"S", "p", "e", "a", "k", "e", "r", "s">>
NameHeadsetMic == <<"U", "S", "B", " ", "M", "I", "C">>
NameLineOut == <<"L", "i", "n", "e", " ", "O", "u", "t">>

\* An endpoint as GetAllDevices reports it.  flow "unreported": the device
\* object has no flow attribute, or it is None.  hasId FALSE: dev.id is empty.
Endpoint(state, flow, name, hasId) ==
    [state |-> state, flow |-> flow, name |-> name, hasId |-> hasId]

EndpointKinds == {
    Endpoint("Active", "render", NameSpeakers, TRUE),
    Endpoint("Active", "render", <<>>, TRUE),
    Endpoint("Active", "render", NameHeadsetMic, TRUE),
    Endpoint("Active", "capture", NameLineOut, TRUE),
    Endpoint("Active", "both", NameSpeakers, TRUE),
    Endpoint("Active", "unreported", NameLineOut, TRUE),
    Endpoint("Unplugged", "render", NameSpeakers, TRUE),
    Endpoint("Active", "render", NameSpeakers, FALSE)
}

\* The endpoint lists of at most MaxDevices endpoints; the i-th endpoint of
\* the OS has the id IdAt[i] (an unplugged endpoint stays in the list).
EndpointLists == UNION {[1..n -> EndpointKinds] : n \in 0..MaxDevices}

\* dev.id of the i-th endpoint
EndpointId(all, i) == IF all[i].hasId THEN IdAt[i] ELSE EmptyStr

\* FlowRejects comparing with eCapture instead of eRender
FlowRejectsCapture(dev) == dev.flow # "unreported" /\ FlowValue(dev.flow) = 1

\* dev.flow.value != 0, when the flow is reported
FlowRejects(dev) == dev.flow # "unreported" /\ FlowValue(dev.flow) # 0

\* the body of the loop for one device: the list after examining all[i]
ExamineDevice(all, i, acc) ==
    LET dev == all[i] IN
    IF dev.state = "Active" /\ EndpointId(all, i) # EmptyStr
    THEN IF FlowRejects(dev) THEN acc
         ELSE IF MatchesSkipPattern(dev.name) THEN acc
         ELSE Append(acc, [id |-> EndpointId(all, i),
                           name |-> IF dev.name # <<>> THEN dev.name
                                    ELSE FallbackName(Len(acc) + 1)])
    ELSE acc

\* the loop over all_devices; an exception raised while all[failAt] is
\* examined leaves the loop, and the except clause keeps what was appended
RECURSIVE ExamineFrom(_, _, _, _)
ExamineFrom(all, i, failAt, acc) ==
    IF i > Len(all) THEN acc
    ELSE IF i = failAt THEN acc
    ELSE ExamineFrom(all, i + 1, failAt, ExamineDevice(all, i, acc))

\* _refresh_devices(): the new self._devices.  failAt = 0: GetAllDevices()
\* raises; failAt = k in 1..Len(all): examining the k-th device raises;
\* failAt = Len(all) + 1: nothing raises.
refresh_devices(all, failAt) ==
    IF failAt = 0 THEN <<>> ELSE ExamineFrom(all, 1, failAt, <<>>)

EnumFailPoints(all) ==
    IF "enum" \in faults THEN 0..(Len(all) + 1) ELSE {Len(all) + 1}

\* get_device_name(device_id): the name of the first device with that id;
\* found = FALSE stands for the None returned when no device has it
get_device_name(devs, device_id) ==
    IF \E i \in 1..Len(devs) : devs[i].id = device_id
    THEN [found |-> TRUE,
          name |-> devs[CHOOSE i \in 1..Len(devs) :
                          /\ devs[i].id = device_id
                          /\ \A j \in 1..(i - 1) : devs[j].id # device_id].name]
    ELSE [found |-> FALSE, name |-> <<>>]

----------------------------------------------------------------------------
(* The default endpoint: get_default_device_id, PolicyConfigClient *)

\* The values the OS default endpoint of a role takes (None: no default).
DefaultVals == {None, "A", "B", "C"}

ReadFailChoices == IF "read_default" \in faults THEN BOOLEAN ELSE {FALSE}
RoleFailSets == IF "role" \in faults THEN SUBSET Roles ELSE {{}}
OpenFailChoices == IF "read" \in faults THEN BOOLEAN ELSE {FALSE}

\* get_default_device_id(): GetDefaultAudioEndpoint(0, 0).GetId(), None on
\* any exception
get_default_device_id(defaults, readFails) ==
    IF readFails THEN None ELSE defaults[0]

\* SetRoles with the try around the loop: the first failure ends the loop
RECURSIVE SetRolesAbort(_, _, _, _)
SetRolesAbort(role, device_id, fails, st) ==
    IF role >= NumRoles THEN st
    ELSE IF role \in fails THEN [st EXCEPT !.attempts = Append(@, role)]
    ELSE SetRolesAbort(role + 1, device_id, fails,
                       [attempts |-> Append(st.attempts, role),
                        defaults |-> [st.defaults EXCEPT ![role] = device_id]])

\* the loop of set_default_endpoint from role on: every role is attempted,
\* SetDefaultEndpoint(device_id, role) raises for the roles in fails
RECURSIVE SetRoles(_, _, _, _)
SetRoles(role, device_id, fails, st) ==
    IF role >= NumRoles THEN st
    ELSE SetRoles(role + 1, device_id, fails,
                  [attempts |-> Append(st.attempts, role),
                   defaults |-> IF role \in fails THEN st.defaults
                                ELSE [st.defaults EXCEPT ![role] = device_id]])

\* PolicyConfigClient.set_default_endpoint(device_id)
set_default_endpoint(pconfig, device_id, fails, defaults) ==
    IF pconfig
    THEN SetRoles(0, device_id, fails, [attempts |-> <<>>, defaults |-> defaults])
    ELSE [attempts |-> <<>>, defaults |-> defaults]

\* PolicyConfigClient(): _init_policy_config leaves _policy_config None when
\* CoCreateInstance raises
NewPolicyConfig(com) == com

\* AudioSwitcher.set_default_device(device_id): the client is created on the
\* first call only
set_default_device(pclient, pconfig, com, defaults, device_id, fails) ==
    LET pc2 == IF pclient = None THEN NewPolicyConfig(com) ELSE pconfig
        r == set_default_endpoint(pc2, device_id, fails, defaults)
    IN  [policy_client |-> "PolicyConfigClient", policy_config |-> pc2,
         attempts |-> r.attempts, defaults |-> r.defaults]

\* toggle_target with the favorites exchanged in the comparison
toggle_target_swapped(cfg, current) ==
    LET fav1 == Get(cfg, "favorite1")
        fav2 == Get(cfg, "favorite2")
    IN  IF ~Truthy(fav1) \/ ~Truthy(fav2) THEN NoRequest
        ELSE IF current = fav2 THEN fav1 ELSE fav2

\* toggle_target returning early only when both favorites are unset
toggle_target_and(cfg, current) ==
    LET fav1 == Get(cfg, "favorite1")
        fav2 == Get(cfg, "favorite2")
    IN  IF ~Truthy(fav1) /\ ~Truthy(fav2) THEN NoRequest
        ELSE IF current = fav1 THEN fav2 ELSE fav1

\* toggle_favorites(): the device to activate, NoRequest for the early return
toggle_target(cfg, current) ==
    LET fav1 == Get(cfg, "favorite1")
        fav2 == Get(cfg, "favorite2")
    IN  IF ~Truthy(fav1) \/ ~Truthy(fav2) THEN NoRequest
        ELSE IF current = fav1 THEN fav2 ELSE fav1

\* set_favorite building a new dict that holds the assigned slot only
set_favorite_reset(cfg, slot, device_id) ==
    [Dict(NoKey, NoKey) EXCEPT ![FavKey(slot)] = device_id]

\* set_favorite(slot, device_id): self._config[f'favorite{slot}'] = device_id
set_favorite(cfg, slot, device_id) == [cfg EXCEPT ![FavKey(slot)] = device_id]

\* _get_favorite_label(slot): the label shows a device name (TRUE) or
\* '(Not set)' (FALSE)
favorite_label(cfg, devs, slot) == get_device_name(devs, Get(cfg, FavKey(slot))).found

----------------------------------------------------------------------------
(* Observation of a step *)

Obs(op) ==
    [op |-> op, slot |-> 0, id |-> None, current |-> NotRead,
     request |-> NoRequest, attempts |-> <<>>, fails |-> {}, raised |-> FALSE,
     save |-> "none", priorDegraded |-> FALSE, comAtCall |-> FALSE,
     enumFailed |-> FALSE, named |-> {}]

\* the client exists and has no policy interface: an earlier
\* set_default_device degraded to a no-op
Degraded == policy_client # None /\ ~policy_config

\* How load_config finds the file.
FileClass(f, openFails) ==
    IF ~f.exists THEN "missing"
    ELSE IF openFails THEN "unreadable"
    ELSE IF f.text = <<>> THEN "empty"
    ELSE IF ~ParseJSON(f.text).ok \/ ParseJSON(f.text).value.type # "dict" THEN "malformed"
    ELSE "valid"

MenuIds == {menuDevices[i].id : i \in 1..Len(menuDevices)}

----------------------------------------------------------------------------
(* Handlers *)

\* the part of a handler that calls set_default_device(device_id)
RequestDefault(op, device_id, current, fails) ==
    LET r == set_default_device(policy_client, policy_config, comAvailable,
                                osDefault, device_id, fails)
    IN  /\ policy_client' = r.policy_client
        /\ policy_config' = r.policy_config
        /\ osDefault' = r.defaults
        /\ last' = [Obs(op) EXCEPT !.id = device_id, !.current = current,
                                   !.request = device_id, !.attempts = r.attempts,
                                   !.fails = IF r.attempts = <<>> THEN {} ELSE fails,
                                   !.priorDegraded = Degraded,
                                   !.comAtCall = comAvailable]

\* _on_click: left click on the icon, toggle_favorites()
on_click ==
    /\ running
    /\ \E readFails \in ReadFailChoices, fails \in RoleFailSets :
         IF config.type # "dict"
         THEN \* self._config.get raises AttributeError
              /\ last' = [Obs("click") EXCEPT !.raised = TRUE]
              /\ UNCHANGED <<policy_client, policy_config, osDefault>>
         ELSE IF toggle_target(config, None) = NoRequest
         THEN /\ last' = Obs("click")
              /\ UNCHANGED <<policy_client, policy_config, osDefault>>
         ELSE LET current == get_default_device_id(osDefault, readFails)
              IN  RequestDefault("click", toggle_target(config, current), current, fails)
    /\ UNCHANGED <<config, file, devices, menuDevices, running, osDevices,
                   comAvailable, faults, boot>>

\* the callback of _make_select_callback(device_id): a device entry is chosen
on_select ==
    /\ running
    /\ \E device_id \in MenuIds, fails \in RoleFailSets :
         RequestDefault("select", device_id, NotRead, fails)
    /\ UNCHANGED <<config, file, devices, menuDevices, running, osDevices,
                   comAvailable, faults, boot>>

\* the callback of _make_favorite_callback(slot, device_id): an entry of a
\* favorite submenu is chosen, set_favorite(slot, device_id)
on_favorite ==
    /\ running
    /\ \E slot \in {1, 2}, device_id \in MenuIds :
         IF config.type # "dict"
         THEN \* item assignment on a value that is no dict raises TypeError
              /\ last' = [Obs("set_favorite") EXCEPT !.slot = slot, !.id = device_id,
                                                     !.raised = TRUE]
              /\ UNCHANGED <<config, file>>
         ELSE LET cfg2 == set_favorite(config, slot, device_id) IN
              \E outcome \in WriteOutcomes(cfg2) :
                 /\ config' = cfg2
                 /\ file' = save_config(file, cfg2, outcome)
                 /\ last' = [Obs("set_favorite") EXCEPT !.slot = slot, !.id = device_id,
                                                        !.save = outcome.kind]
    /\ UNCHANGED <<devices, menuDevices, policy_client, policy_config, running,
                   osDevices, osDefault, comAvailable, faults, boot>>

\* _on_refresh: _refresh_devices(), then icon.update_menu(), which draws the
\* items run() was given again
on_refresh ==
    /\ running
    /\ \E failAt \in EnumFailPoints(osDevices) :
         /\ devices' = refresh_devices(osDevices, failAt)
         /\ last' = [Obs("refresh") EXCEPT !.enumFailed = (failAt <= Len(osDevices))]
    /\ UNCHANGED <<config, file, menuDevices, policy_client, policy_config, running,
                   osDevices, osDefault, comAvailable, faults, boot>>

\* the menu is shown: the labels of both favorite entries are computed
\* (self._config.get raises AttributeError on a value that is no dict)
show_menu ==
    /\ running
    /\ last' = IF config.type # "dict"
               THEN [Obs("show_menu") EXCEPT !.raised = TRUE]
               ELSE [Obs("show_menu") EXCEPT
                        !.named = {slot \in {1, 2} : favorite_label(config, devices, slot)}]
    /\ UNCHANGED <<config, file, devices, menuDevices, policy_client, policy_config,
                   running, osDevices, osDefault, comAvailable, faults, boot>>

\* Exit: icon.stop()
on_exit ==
    /\ running
    /\ running' = FALSE
    /\ last' = Obs("exit")
    /\ UNCHANGED <<config, file, devices, menuDevices, policy_client, policy_config,
                   osDevices, osDefault, comAvailable, faults, boot>>

\* main(): kill_existing_instance(), AudioSwitcher(), run()
main ==
    \E openFails \in OpenFailChoices, failAt \in EnumFailPoints(osDevices) :
       /\ config' = load_config(file, openFails)
       /\ boot' = FileClass(file, openFails)
       /\ devices' = refresh_devices(osDevices, failAt)
       /\ menuDevices' = refresh_devices(osDevices, failAt)
       /\ policy_client' = None
       /\ policy_config' = FALSE
       /\ running' = TRUE
       /\ last' = [Obs("launch") EXCEPT !.enumFailed = (failAt <= Len(osDevices))]
       /\ UNCHANGED <<file, osDevices, osDefault, comAvailable, faults>>

----------------------------------------------------------------------------
(* Environment *)

\* an endpoint is plugged in or unplugged: its state changes, the endpoint
\* stays in the list GetAllDevices enumerates
EnvDevices ==
    /\ \E i \in 1..Len(osDevices) :
         osDevices' = [osDevices EXCEPT
                          ![i].state = IF @ = "Active" THEN "Unplugged" ELSE "Active"]
    /\ last' = Obs("env")
    /\ UNCHANGED <<config, file, devices, menuDevices, policy_client, policy_config,
                   running, osDefault, comAvailable, faults, boot>>

\* the policy interface becomes available or unavailable
EnvCom ==
    /\ comAvailable' = ~comAvailable
    /\ last' = Obs("env")
    /\ UNCHANGED <<config, file, devices, menuDevices, policy_client, policy_config,
                   running, osDevices, osDefault, faults, boot>>

\* the default endpoint is changed outside the program
EnvDefault ==
    /\ \E d \in DefaultVals : osDefault' = [r \in Roles |-> d] /\ osDefault' # osDefault
    /\ last' = Obs("env")
    /\ UNCHANGED <<config, file, devices, menuDevices, policy_client, policy_config,
                   running, osDevices, comAvailable, faults, boot>>

----------------------------------------------------------------------------
(* Initial states and specifications *)

\* The config files the program can find at startup.
InitDicts == {Dict(f1, f2) : f1 \in FavVals \cup {NoKey}, f2 \in FavVals \cup {NoKey}}

OddTexts ==
    {<<>>,                                             \* an empty file
     <<P("{"), S("favorite1")>>,                       \* a document cut short
     <<P("["), P("]")>>,                               \* JSON that is no object
     <<P("{"), P("}")>>,                               \* an object without keys
     <<P("{"), S("favorite2"), P(":"), S("B"), P(","),
       S("favorite1"), P(":"), S("A"), P("}")>>,       \* the keys in the other order
     <<P("{"), S("volume"), P(":"), S("A"), P("}")>>}  \* an unknown key

Missing == [exists |-> FALSE, text |-> <<>>]
FilesOf(texts) == {Missing} \cup {[exists |-> TRUE, text |-> t] : t \in texts}

\* every document save_config can have written, and the odd ones
InitFiles == FilesOf(OddTexts \cup {Dump(d) : d \in InitDicts})

\* the odd documents and a few written ones
FewFiles ==
    FilesOf(OddTexts \cup {Dump(DefaultConfig), Dump(Dict("A", "B")), Dump(Dict("C", NoKey))})

\* MaxDevices active output devices
SpeakerList == [i \in 1..MaxDevices |-> Endpoint("Active", "render", NameSpeakers, TRUE)]

\* The state main() leaves: AudioSwitcher.__init__ has loaded the config and
\* enumerated the devices, run() has built the menu.
InitWith(F, files, lists, defaults, coms) ==
    /\ faults = F
    /\ file \in files
    /\ osDevices \in lists
    /\ osDefault \in {[r \in Roles |-> d] : d \in defaults}
    /\ comAvailable \in coms
    /\ \E openFails \in OpenFailChoices, failAt \in EnumFailPoints(osDevices) :
         /\ config = load_config(file, openFails)
         /\ boot = FileClass(file, openFails)
         /\ devices = refresh_devices(osDevices, failAt)
         /\ menuDevices = refresh_devices(osDevices, failAt)
         /\ last = [Obs("launch") EXCEPT !.enumFailed = (failAt <= Len(osDevices))]
    /\ policy_client = None
    /\ policy_config = FALSE
    /\ running = TRUE

\* The preferences: every handler, a file system whose reads and writes can
\* fail, restarts.
InitPrefs == InitWith({"read", "write"}, FewFiles, {SpeakerList}, {None}, {TRUE})
NextPrefs ==
    \/ on_click
    \/ on_select
    \/ on_favorite
    \/ on_refresh
    \/ show_menu
    \/ on_exit
    \/ main
SpecPrefs == InitPrefs /\ [][NextPrefs]_vars

\* The default endpoint: toggle and selection against an OS whose calls can
\* fail and whose policy interface comes and goes.
InitToggle ==
    InitWith({"role", "read_default", "com"}, InitFiles, {SpeakerList}, DefaultVals, BOOLEAN)
NextToggle ==
    \/ on_click
    \/ on_select
    \/ EnvCom
    \/ EnvDefault
SpecToggle == InitToggle /\ [][NextToggle]_vars

\* The enumeration: every endpoint list, an enumeration that can fail.
InitEnum == InitWith({"enum"}, {Missing}, EndpointLists, {None}, {TRUE})
NextEnum ==
    \/ on_refresh
    \/ show_menu
    \/ main
SpecEnum == InitEnum /\ [][NextEnum]_vars

\* The menu: output devices that are plugged in and unplugged while the
\* program runs.
PluggableLists ==
    UNION {[1..n -> {Endpoint("Active", "render", NameSpeakers, TRUE),
                     Endpoint("Unplugged", "render", NameSpeakers, TRUE)}] : n \in 0..MaxDevices}
InitMenu == InitWith({}, {Missing}, PluggableLists, {None}, {TRUE})
NextMenu ==
    \/ on_refresh
    \/ on_select
    \/ on_exit
    \/ main
    \/ EnvDevices
SpecMenu == InitMenu /\ [][NextMenu]_vars

TypeOK ==
    /\ config \in InitDicts \cup {NonDict}
    /\ file.exists \in BOOLEAN
    /\ policy_client \in {None, "PolicyConfigClient"}
    /\ policy_config \in BOOLEAN
    /\ osDefault \in [Roles -> DefaultVals]
    /\ Len(devices) <= MaxDevices
    /\ Len(menuDevices) <= MaxDevices

----------------------------------------------------------------------------
(* Properties *)

\* range(3) as the sequence of roles, in the order of the loop
AllRoles == [i \in 1..NumRoles |-> i - 1]

Fav(cfg, slot) == Get(cfg, FavKey(slot))
IsDict(cfg) == cfg.type = "dict"
BothSet == IsDict(config) /\ Fav(config, 1) \in DeviceIds /\ Fav(config, 2) \in DeviceIds
AnyUnset == IsDict(config) /\ (Fav(config, 1) = None \/ Fav(config, 2) = None)
Requested == last.op \in {"click", "select"} /\ last.request # NoRequest

\* C1: a click with both favorites set (favorite1 = A, favorite2 = B)
\* requests B when the default read is A, and requests A for every other
\* value read: B, a third device, or None because the read failed.
C1_ToggleTarget ==
    (last.op = "click" /\ BothSet) =>
        /\ ~last.raised
        /\ last.current \in DefaultVals
        /\ last.current = Fav(config, 1) => last.request = Fav(config, 2)
        /\ last.current # Fav(config, 1) => last.request = Fav(config, 1)

C1_Witness ==
    /\ last.op = "click" /\ BothSet
    /\ Fav(config, 1) # Fav(config, 2)
    /\ last.current \in DeviceIds \ {Fav(config, 1), Fav(config, 2)}
    /\ last.request = Fav(config, 1)

\* C2: a click while favorite1 or favorite2 is unset requests nothing for
\* any role, raises nothing, and leaves the OS defaults, the preferences and
\* the file as they were, whatever the current default is.
C2_ToggleNoOp ==
    [][(last'.op = "click" /\ AnyUnset) =>
          /\ last'.request = NoRequest
          /\ last'.attempts = <<>>
          /\ ~last'.raised
          /\ osDefault' = osDefault
          /\ config' = config
          /\ file' = file
          /\ policy_client' = policy_client]_vars

C2_Witness ==
    /\ last.op = "click"
    /\ IsDict(config) /\ Fav(config, 1) \in DeviceIds /\ Fav(config, 2) = None
    /\ osDefault[0] = Fav(config, 1)
    /\ last.request = NoRequest

\* C3: with the policy interface available, a set-default request attempts
\* the set call of each role 0, 1, 2 once, in order, whichever calls fail,
\* and nothing is raised.
C3_AllRolesAttempted ==
    (Requested /\ policy_config) => (last.attempts = AllRoles /\ ~last.raised)

C3_Witness ==
    /\ Requested /\ policy_config
    /\ last.fails = {0}
    /\ last.attempts = AllRoles
    /\ osDefault[0] # last.request
    /\ osDefault[1] = last.request /\ osDefault[2] = last.request

\* C4: a config file that was missing, unreadable, empty or malformed at
\* startup gives both favorites unset, and no later operation raises.
C4_LoadResilient ==
    boot \in {"missing", "unreadable", "empty", "malformed"} =>
        /\ ~last.raised
        /\ last.op = "launch" => config = DefaultConfig

\* what load_config returns if the program is restarted now
Reloaded == load_config(file, FALSE)

SavedAndReloaded ==
    /\ IsDict(Reloaded)
    /\ Fav(Reloaded, last.slot) = last.id
    /\ Fav(Reloaded, OtherSlot(last.slot)) = Fav(config, OtherSlot(last.slot))

\* C5 as stated: after every set_favorite(slot, X) that returned, load_config
\* gives favorite{slot} = X and the other favorite as it is in memory.
C5_Original == (last.op = "set_favorite" /\ ~last.raised) => SavedAndReloaded

\* C5: after a set_favorite(slot, X) whose write succeeded, load_config (able
\* to open the file) gives favorite{slot} = X and the other favorite as it is
\* in memory.
C5_SavedFavoriteReloads == (last.op = "set_favorite" /\ last.save = "ok") => SavedAndReloaded

C5_Witness ==
    /\ last.op = "set_favorite" /\ last.save = "ok"
    /\ Fav(config, OtherSlot(last.slot)) \in DeviceIds \ {last.id}
    /\ Fav(Reloaded, last.slot) = last.id

\* the endpoint a listed device came from
FromEndpoint(dev, Ok(_)) ==
    \E i \in 1..Len(osDevices) : EndpointId(osDevices, i) = dev.id /\ Ok(osDevices[i])

Enumerated == last.op \in {"refresh", "launch"}

ActiveRender(e) == e.state = "Active" /\ e.flow = "render"
ActiveNotInput(e) == e.state = "Active" /\ e.flow \in {"render", "unreported"}

\* C6 as stated: every listed device is active and its flow is render.
C6_Original ==
    Enumerated => \A k \in 1..Len(devices) : FromEndpoint(devices[k], ActiveRender)

\* C6: every listed device is active and its flow is render or not
\* reported; an inactive, capture or both-direction endpoint is never listed.
C6_ActiveNotInput ==
    Enumerated => \A k \in 1..Len(devices) : FromEndpoint(devices[k], ActiveNotInput)

C6_Witness ==
    /\ last.op = "refresh" /\ ~last.enumFailed
    /\ Len(devices) = 1
    /\ FromEndpoint(devices[1], LAMBDA e : e.flow = "unreported")
    /\ \E i \in 1..Len(osDevices) : osDevices[i].flow = "capture"

\* C7: an enumeration that failed, at GetAllDevices or at any device, leaves
\* the device list empty.
C7_EmptyOnFailure == (Enumerated /\ last.enumFailed) => devices = <<>>

Holds(cfg, slot) == IsDict(cfg) /\ cfg[FavKey(slot)] \in DeviceIds

\* C8: while the process runs, a slot that holds a device id still holds one
\* after every step, and its value changes only by set_favorite on that slot.
C8_NeverUnset ==
    [][\A slot \in {1, 2} :
          (Holds(config, slot) /\ last'.op # "launch") =>
              /\ Holds(config', slot)
              /\ config'[FavKey(slot)] # config[FavKey(slot)] =>
                    (last'.op = "set_favorite" /\ last'.slot = slot)]_vars

C8_Witness ==
    /\ last.op = "set_favorite" /\ last.save = "truncated"
    /\ Holds(config, 1) /\ Holds(config, 2)
    /\ config[FavKey(last.slot)] = last.id
    /\ ~IsDict(Reloaded) \/ Fav(Reloaded, last.slot) # last.id

\* C9: a set-default request made after an earlier one degraded to a no-op,
\* at a time the policy interface is available, attempts the three set calls.
C9_RetryAfterDegraded ==
    (Requested /\ last.priorDegraded /\ last.comAtCall) => last.attempts = AllRoles

\* C10: after Refresh the menu offers exactly the devices the enumeration of
\* that Refresh returned.
C10_MenuFollowsRefresh == last.op = "refresh" => menuDevices = devices

====
